---------------------------- MODULE Spec2Model ----------------------------
(***************************************************************************)
(* Model of SSLBusCompressor (code/Python/audio/compressor.py) and of the  *)
(* CompressorGUI.process_audio handler that drives it.                     *)
(*                                                                         *)
(* Real numbers are fixed-point integers: the real r is the integer        *)
(* r * SCALE.  Sums and differences are exact, products and quotients are  *)
(* rounded to the nearest representable value, exp / log10 / 10**y are     *)
(* computed by series and by the square-and-compare logarithm, so every    *)
(* float expression of the source is an integer expression with rounding.  *)
(* Parameters given in natural units (dB, ms, Hz, ratio) are integers.     *)
(***************************************************************************)
EXTENDS Integers, Sequences, FiniteSets, TLC

\* ------------------------------------------------------------------
\* Fixed-point arithmetic
\* ------------------------------------------------------------------

\* One unit of 1.0 in the fixed-point representation.
SCALE == 10^4

\* One guard digit for the exponential series.
GUARD == 10

\* ln(10) and log10(2) in fixed point.
LN10 == (23026 * SCALE) \div 10^4
LOG10_2 == (3010 * SCALE) \div 10^4

Abs(x) == IF x < 0 THEN -x ELSE x

\* n / d rounded to the nearest integer (d # 0).
Round(n, d) ==
    IF d > 0 THEN (n + d \div 2) \div d
             ELSE ((-n) + (-d) \div 2) \div (-d)

\* a * b and a / b on fixed-point values.  The product is
\* Round(a * b, SCALE), computed on the whole and fractional parts of a
\* so that the intermediate value stays within the integers' width.
Mul(a, b) == (a \div SCALE) * b + Round((a % SCALE) * b, SCALE)
Div(a, b) == Round(a * SCALE, b)

\* Sum of the series  term + term*a/k + term*a^2/(k(k+1)) + ...
\* (a in fixed point, |a| <= 1.0; term carries the guard digit).
RECURSIVE ExpSeries(_, _, _)
ExpSeries(a, term, k) ==
    IF term = 0 THEN 0
    ELSE term + ExpSeries(a, Round(term * a, SCALE * k), k + 1)

\* exp(a) for a fixed-point a: halve the argument until |a| <= 1.0,
\* sum the series, square back.
RECURSIVE Exp(_)
Exp(a) ==
    IF Abs(a) > SCALE
    THEN LET h == Exp(Round(a, 2)) IN Mul(h, h)
    ELSE Round(ExpSeries(a, SCALE * GUARD, 1), GUARD)

\* 10 ** y for a fixed-point y  (Python: 10 ** y).
Pow10(y) == Exp(Mul(y, LN10))

\* Fractional bits of log2(v) for v in [1.0, 2.0): square, compare with 2.0.
RECURSIVE Log2Frac(_, _)
Log2Frac(v, bit) ==
    IF bit = 0 THEN 0
    ELSE LET sq == Mul(v, v) IN
         IF sq >= 2 * SCALE
         THEN bit + Log2Frac(Round(sq, 2), bit \div 2)
         ELSE Log2Frac(sq, bit \div 2)

\* log2(v) for a fixed-point v > 0.
RECURSIVE Log2(_)
Log2(v) ==
    IF v >= 2 * SCALE THEN SCALE + Log2(Round(v, 2))
    ELSE IF v < SCALE THEN Log2(2 * v) - SCALE
    ELSE Log2Frac(v, SCALE \div 2)

\* np.log10(v) for a fixed-point v > 0.
Log10(v) == Mul(Log2(v), LOG10_2)

\* ------------------------------------------------------------------
\* SSLBusCompressor
\* ------------------------------------------------------------------

\* Defaults of SSLBusCompressor.__init__ (dB, ratio, ms, Hz).
DefaultSampleRate == 44100
DefaultThresholdDb == -10
DefaultRatio == 4
DefaultAttackMs == 10
DefaultReleaseMs == 300
DefaultMakeupGainDb == 0

\* The instance is its attribute dictionary: a function from attribute
\* names to values.  Reading a name outside its domain is Python's
\* AttributeError.  threshold_db, ratio, attack_ms, release_ms,
\* makeup_gain_db and sample_rate are integers in their natural units;
\* envelope, threshold, attack_coeff, release_coeff and makeup_gain are
\* fixed-point reals.
SetAttr(obj, name, v) ==
    [n \in DOMAIN obj \cup {name} |-> IF n = name THEN v ELSE obj[n]]

HasAttr(obj, name) == name \in DOMAIN obj

\* SSLBusCompressor.__init__(sample_rate)
Construct(sample_rate) ==
    [sample_rate    |-> sample_rate,
     threshold_db   |-> DefaultThresholdDb,
     ratio          |-> DefaultRatio,
     attack_ms      |-> DefaultAttackMs,
     release_ms     |-> DefaultReleaseMs,
     makeup_gain_db |-> DefaultMakeupGainDb,
     envelope       |-> 0]

\* 10 ** (db / 20.0)
DbToLinear(db) == Pow10(Round(db * SCALE, 20))

\* Mutant of TimeConstant: the milliseconds scaled by 0.0001.
TimeConstantTenths(ms, sample_rate) == (SCALE \div 10000) * ms * sample_rate

\* 0.001 * ms * sample_rate, the time constant in samples (fixed point).
TimeConstant(ms, sample_rate) == (SCALE \div 1000) * ms * sample_rate

\* np.exp(-1.0 / (0.001 * ms * sample_rate)), for a non-zero time constant.
Coeff(ms, sample_rate) == Exp(Div(-SCALE, TimeConstant(ms, sample_rate)))

\* The arguments of set_params.
Params(threshold_db, ratio, attack_ms, release_ms, makeup_gain_db) ==
    [threshold_db |-> threshold_db, ratio |-> ratio, attack_ms |-> attack_ms,
     release_ms |-> release_ms, makeup_gain_db |-> makeup_gain_db]

\* Mutant of SetParamsCall: the envelope is not reset.
SetParamsKeepsEnvelope(obj, p) ==
    LET s1 == SetAttr(SetAttr(SetAttr(obj,
                  "threshold_db", p.threshold_db),
                  "threshold", DbToLinear(p.threshold_db)),
                  "ratio", p.ratio)
    IN  IF TimeConstant(p.attack_ms, obj.sample_rate) = 0
        THEN [self |-> s1, err |-> "ZeroDivisionError"]
        ELSE
        LET s2 == SetAttr(s1, "attack_coeff", Coeff(p.attack_ms, obj.sample_rate))
        IN  IF TimeConstant(p.release_ms, obj.sample_rate) = 0
            THEN [self |-> s2, err |-> "ZeroDivisionError"]
            ELSE
            [self |-> SetAttr(SetAttr(SetAttr(s2,
                          "release_coeff", Coeff(p.release_ms, obj.sample_rate)),
                          "makeup_gain_db", p.makeup_gain_db),
                          "makeup_gain", DbToLinear(p.makeup_gain_db)),
             err |-> "none"]

\* set_params, statement by statement.  -1.0 / 0.0 raises ZeroDivisionError
\* (the arguments are Python numbers), which leaves the assignments made
\* before it in place.  Result: the instance and the exception raised.
SetParamsCall(obj, p) ==
    LET s1 == SetAttr(SetAttr(SetAttr(obj,
                  "threshold_db", p.threshold_db),
                  "threshold", DbToLinear(p.threshold_db)),
                  "ratio", p.ratio)
    IN  IF TimeConstant(p.attack_ms, obj.sample_rate) = 0
        THEN [self |-> s1, err |-> "ZeroDivisionError"]
        ELSE
        LET s2 == SetAttr(s1, "attack_coeff", Coeff(p.attack_ms, obj.sample_rate))
        IN  IF TimeConstant(p.release_ms, obj.sample_rate) = 0
            THEN [self |-> s2, err |-> "ZeroDivisionError"]
            ELSE
            [self |-> SetAttr(SetAttr(SetAttr(SetAttr(s2,
                          "release_coeff", Coeff(p.release_ms, obj.sample_rate)),
                          "makeup_gain_db", p.makeup_gain_db),
                          "makeup_gain", DbToLinear(p.makeup_gain_db)),
                          "envelope", 0),
             err |-> "none"]

\* Mutant of Rectify: the sample is not rectified.
RectifyNoAbs(x) == x

\* abs(x)
Rectify(x) == Abs(x)

\* Mutant of EnvelopeUpdate: a sign slip in the difference.
EnvelopeUpdateSignSlip(coeff, envelope, rectified) ==
    Mul(coeff, envelope + rectified) + rectified

\* coeff * (self.envelope - rectified) + rectified
EnvelopeUpdate(coeff, envelope, rectified) ==
    Mul(coeff, envelope - rectified) + rectified

\* Mutant of Slope: 1.0 / ratio.
SlopeInverted(ratio) == Round(SCALE, ratio)

\* 1.0 - 1.0 / ratio, for ratio # 0.
Slope(ratio) == SCALE - Round(SCALE, ratio)

\* (20 * np.log10(envelope / threshold)) * (1.0 - 1.0 / ratio)
GainReductionDb(envelope, threshold, ratio) ==
    Mul(20 * Log10(Div(envelope, threshold)), Slope(ratio))

\* 10 ** (-gain_reduction_db / 20.0)
GainOf(gain_reduction_db) == Pow10(Round(-gain_reduction_db, 20))

\* The gain of one sample, for ratio # 0 when the envelope is above the
\* threshold.
Gain(envelope, threshold, ratio) ==
    IF envelope > threshold
    THEN GainOf(GainReductionDb(envelope, threshold, ratio))
    ELSE SCALE

\* x * gain * self.makeup_gain
OutputSample(x, gain, makeup_gain) == Mul(Mul(x, gain), makeup_gain)

\* One iteration of the loop of process on sample x.  Result: the
\* instance, the output sample, the branch of the envelope update taken and
\* the exception raised.  An AttributeError in the envelope update leaves
\* the envelope as it was; an exception raised later in the iteration
\* leaves the updated envelope in place.
Sample(obj, x) ==
    LET rectified == Rectify(x)
        branch == IF rectified > obj.envelope THEN "attack" ELSE "release"
        coeff == IF branch = "attack" THEN "attack_coeff" ELSE "release_coeff"
        Raise(o, e) == [self |-> o, out |-> 0, branch |-> branch, err |-> e]
    IN  IF ~HasAttr(obj, coeff) THEN Raise(obj, "AttributeError")
        ELSE
        LET s1 == [obj EXCEPT !.envelope =
                       EnvelopeUpdate(obj[coeff], obj.envelope, rectified)]
        IN  IF ~HasAttr(s1, "threshold") THEN Raise(s1, "AttributeError")
            ELSE IF s1.envelope > s1.threshold /\ s1.ratio = 0
                 THEN Raise(s1, "ZeroDivisionError")
            ELSE IF ~HasAttr(s1, "makeup_gain") THEN Raise(s1, "AttributeError")
            ELSE [self |-> s1,
                  out |-> OutputSample(x, Gain(s1.envelope, s1.threshold, s1.ratio),
                                       s1.makeup_gain),
                  branch |-> branch, err |-> "none"]

\* One pass of the loop on sample x.  acc is the instance, the output
\* written so far, the trace (per sample reached, the envelope after its
\* iteration and the branch taken) and the exception raised; an exception
\* ends the call, and nothing is returned.
LoopStep(acc, x) ==
    LET r == Sample(acc.self, x)
        t == Append(acc.trace,
                    [envelope |-> r.self.envelope, branch |-> r.branch])
    IN  IF r.err # "none"
        THEN [self |-> r.self, output |-> << >>, trace |-> t, err |-> r.err]
        ELSE [self |-> r.self, output |-> Append(acc.output, r.out),
              trace |-> t, err |-> "none"]

\* The loop of process over samples lo..hi, in order, ended by the first
\* exception (the range is split in halves only to keep the evaluation
\* shallow).
RECURSIVE ProcessLoop(_, _, _, _)
ProcessLoop(acc, input_signal, lo, hi) ==
    IF lo > hi THEN acc
    ELSE IF lo = hi THEN LoopStep(acc, input_signal[lo])
    ELSE LET mid == (lo + hi) \div 2
             left == ProcessLoop(acc, input_signal, lo, mid)
         IN  IF left.err # "none" THEN left
             ELSE ProcessLoop(left, input_signal, mid + 1, hi)

\* The state of process before its loop: output = np.zeros_like(input_signal).
LoopStart(obj) ==
    [self |-> obj, output |-> << >>, trace |-> << >>, err |-> "none"]

\* Mutant of ProcessCall: every call starts from envelope 0.
ProcessCallResetsEnvelope(obj, input_signal) ==
    ProcessLoop(LoopStart([obj EXCEPT !.envelope = 0]), input_signal,
                1, Len(input_signal))

\* process(input_signal): the instance afterwards, the returned sequence
\* (none when it raises) and the exception raised.
ProcessCall(obj, input_signal) ==
    ProcessLoop(LoopStart(obj), input_signal, 1, Len(input_signal))

\* ------------------------------------------------------------------
\* State machine: one instance and its caller
\* ------------------------------------------------------------------

\* Bounds of the model.
MaxLen == 2
MaxStream == 3

\* Sample values: 0.0, the smallest positive value, -0.05, 1.0.
Samples == {0, 1, -(SCALE \div 20), SCALE}

\* Input buffers of at most MaxLen samples.
Inputs == UNION {[1..n -> Samples] : n \in 0..MaxLen}

\* Sample rates given to the constructor, and declared by a loaded file.
SampleRates == {0, 1000, DefaultSampleRate}
FileRates == {1000, DefaultSampleRate}

DefaultParams ==
    Params(DefaultThresholdDb, DefaultRatio, DefaultAttackMs,
           DefaultReleaseMs, DefaultMakeupGainDb)

\* Arguments given to set_params by a caller of the class: the defaults, a
\* fast compressor with makeup gain, ratio 1 at two thresholds, and every
\* kind of value outside the documented ranges (attack 0, release 0,
\* ratio 0, negative attack, negative release).
ParamChoices ==
    {DefaultParams,
     Params(-20, 4, 1, 10, 6),
     Params(-10, 1, 1, 10, 0),
     Params(-20, 1, -5, 300, 0),
     Params(-20, 4, 0, 300, 0),
     Params(-20, 2, 1, 0, 6),
     Params(-10, 0, 1, 10, 0),
     Params(-20, 4, 1, -1, 0)}

\* Slider positions read by process_audio (within the sliders' ranges).
SliderChoices == {DefaultParams, Params(-20, 4, 1, 10, 6)}

VARIABLES
    comp,       \* the SSLBusCompressor instance (its attribute dictionary)
    last,       \* the last call made on it, with its arguments and outcome
    prev,       \* the process call before it, when last is a process call
                \* that directly follows one
    cfg,        \* the arguments of the latest set_params call, if it returned
    streamLen   \* samples processed since the latest set_params that returned

vars == <<comp, last, prev, cfg, streamLen>>

\* The attributes a call created, removed or changed.
Changed(before, after) ==
    {n \in DOMAIN before \cup DOMAIN after :
        \/ n \notin DOMAIN before
        \/ n \notin DOMAIN after
        \/ before[n] # after[n]}

\* The record of a call: its arguments, what it returned or raised, the
\* envelope its first sample started from (env0), the envelope and branch
\* of every sample it reached (trace) and the attributes it changed.
Call(op, p, input, r, env0, changed) ==
    [op |-> op, params |-> p, input |-> input, output |-> r.output,
     trace |-> r.trace, err |-> r.err, env0 |-> env0, changed |-> changed]

NoResult(err) == [output |-> << >>, trace |-> << >>, err |-> err]
NoParams == Params(0, 0, 0, 0, 0)
NoCall == Call("none", NoParams, << >>, NoResult("none"), 0, {})
NoConfig == [set |-> FALSE, params |-> NoParams, sample_rate |-> 0]
Config(p, sample_rate) == [set |-> TRUE, params |-> p, sample_rate |-> sample_rate]

Constructed(sample_rate) ==
    /\ comp = Construct(sample_rate)
    /\ last = Call("__init__", NoParams, << >>, NoResult("none"), 0, {})
    /\ prev = NoCall
    /\ cfg = NoConfig
    /\ streamLen = 0

Init == \E sample_rate \in SampleRates : Constructed(sample_rate)

\* comp.set_params(...)
SetParams(p) ==
    \E r \in {SetParamsCall(comp, p)} :
    /\ comp' = r.self
    /\ last' = Call("set_params", p, << >>, NoResult(r.err), 0,
                    Changed(comp, r.self))
    /\ prev' = NoCall
    /\ cfg' = IF r.err = "none" THEN Config(p, comp.sample_rate) ELSE NoConfig
    /\ streamLen' = IF r.err = "none" THEN 0 ELSE streamLen

\* comp.process(input_signal)
Process(input_signal) ==
    \E r \in {ProcessCall(comp, input_signal)} :
    /\ comp' = r.self
    /\ last' = Call("process", NoParams, input_signal, r, comp.envelope,
                    Changed(comp, r.self))
    /\ prev' = IF last.op = "process" THEN last ELSE NoCall
    /\ streamLen' = streamLen + Len(input_signal)
    /\ UNCHANGED cfg

\* CompressorGUI.process_audio with the file's sample rate, the sliders'
\* values and the file's samples.
ProcessAudio(sample_rate, p, audio_data) ==
    \E c1 \in {[comp EXCEPT !.sample_rate = sample_rate]} :
    \E r1 \in {SetParamsCall(c1, p)} :
    \E r2 \in {IF r1.err = "none" THEN ProcessCall(r1.self, audio_data)
               ELSE [self |-> r1.self, output |-> << >>, trace |-> << >>,
                     err |-> r1.err]} :
    /\ comp' = r2.self
    /\ last' = Call("process_audio", p, audio_data, r2, r1.self.envelope,
                    Changed(comp, r2.self))
    /\ prev' = NoCall
    /\ cfg' = IF r1.err = "none" THEN Config(p, sample_rate) ELSE NoConfig
    /\ streamLen' = IF r1.err = "none" THEN Len(audio_data) ELSE streamLen

\* A caller of the class: any set_params, any process.
Next ==
    \/ \E p \in ParamChoices : SetParams(p)
    \/ \E input_signal \in Inputs :
          /\ streamLen + Len(input_signal) <= MaxStream
          /\ Process(input_signal)

Spec == Init /\ [][Next]_vars

\* CompressorGUI: its own instance, built with the default sample rate and
\* driven by process_audio alone.
InitGUI == Constructed(DefaultSampleRate)

NextGUI ==
    \E sample_rate \in FileRates, p \in SliderChoices, audio_data \in Inputs :
        ProcessAudio(sample_rate, p, audio_data)

SpecGUI == InitGUI /\ [][NextGUI]_vars

\* The scenario of 100 samples of constant value 1.0 on an instance built
\* and configured with the defaults (44100 Hz, -10 dB, ratio 4, attack
\* 10 ms, release 300 ms, makeup 0 dB); the buffers are its prefixes.
ScenarioLen == 100

Ones(n) == [i \in 1..n |-> SCALE]

InitScenario == Constructed(DefaultSampleRate)

NextScenario ==
    \/ SetParams(DefaultParams)
    \/ \E n \in 0..ScenarioLen :
          /\ cfg.set
          /\ streamLen = 0
          /\ Process(Ones(n))

SpecScenario == InitScenario /\ [][NextScenario]_vars

\* ------------------------------------------------------------------
\* Properties
\* ------------------------------------------------------------------

\* set_params has returned at least once: every derived attribute exists.
Configured(obj) ==
    {"threshold", "attack_coeff", "release_coeff", "makeup_gain"} \subseteq DOMAIN obj

\* The latest set_params call returned and was given times and a sample
\* rate inside the documented ranges.
ValidTimes ==
    /\ cfg.set
    /\ cfg.params.attack_ms > 0
    /\ cfg.params.release_ms > 0
    /\ cfg.sample_rate > 0

\* The last call ran the loop of process.
Processed == last.op \in {"process", "process_audio"}

Max(a, b) == IF a > b THEN a ELSE b

\* The largest |x| among the first n samples of input.
Peak(input, n) ==
    IF n = 0 THEN 0
    ELSE CHOOSE m \in {Abs(input[i]) : i \in 1..n} :
             \A i \in 1..n : Abs(input[i]) <= m

\* C1 (state continuity): two process calls in a row on an instance whose
\* latest set_params returned, neither raising, produce outputs whose
\* concatenation is the output of one process call on the concatenated
\* input started from the first call's envelope, and leave the same envelope.
C1_StateContinuity ==
    (/\ last.op = "process" /\ prev.op = "process" /\ cfg.set
     /\ prev.err = "none" /\ last.err = "none")
    => LET whole == ProcessCall([comp EXCEPT !.envelope = prev.env0],
                                prev.input \o last.input)
       IN  /\ whole.err = "none"
           /\ whole.output = prev.output \o last.output
           /\ whole.self.envelope = comp.envelope

C1_Witness ==
    /\ last.op = "process" /\ prev.op = "process" /\ cfg.set
    /\ prev.err = "none" /\ last.err = "none"
    /\ Len(prev.input) > 0 /\ Len(last.input) > 0
    /\ last.env0 > comp.threshold
    /\ last.output # last.input

\* C2 (atomic validation): a set_params call given attack_ms <= 0,
\* release_ms <= 0 or ratio < 1, or made with sample_rate <= 0, fails with
\* InvalidParameter and changes no attribute of the instance.
C2_AtomicValidation ==
    (/\ last.op = "set_params"
     /\ \/ last.params.attack_ms <= 0
        \/ last.params.release_ms <= 0
        \/ last.params.ratio < 1
        \/ comp.sample_rate <= 0)
    => (last.err = "InvalidParameter" /\ last.changed = {})

\* C3 (process raises nothing): no process call raises, whatever calls of
\* the constructor, set_params and process came before it.
C3_ProcessNeverRaises == (last.op = "process") => (last.err = "none")

\* C4 (derived values never stale): whenever the derived attributes exist,
\* they equal the values derived from the stored threshold_db, attack_ms,
\* release_ms, makeup_gain_db and sample_rate.
C4_DerivedNeverStale ==
    Configured(comp)
    => /\ comp.threshold = DbToLinear(comp.threshold_db)
       /\ comp.attack_coeff = Coeff(comp.attack_ms, comp.sample_rate)
       /\ comp.release_coeff = Coeff(comp.release_ms, comp.sample_rate)
       /\ comp.makeup_gain = DbToLinear(comp.makeup_gain_db)

\* C5 (reset on configure): after every set_params call that returns the
\* envelope is 0, and the first samples processed after it start from
\* envelope 0.
C5_ResetOnConfigure ==
    /\ (last.op = "set_params" /\ last.err = "none") => comp.envelope = 0
    /\ (last.op = "process" /\ cfg.set /\ streamLen = Len(last.input))
       => last.env0 = 0

C5_Witness ==
    /\ last.op = "set_params" /\ last.err = "none"
    /\ "envelope" \in last.changed

\* Every input sample of the last call is at most the threshold in magnitude.
BelowThreshold ==
    \A i \in 1..Len(last.input) : Abs(last.input[i]) <= comp.threshold

\* Every output sample of the last call is its input sample times the
\* makeup gain (gain 1.0).
UnityGain ==
    /\ last.err = "none"
    /\ Len(last.output) = Len(last.input)
    /\ \A i \in 1..Len(last.input) :
          last.output[i] = OutputSample(last.input[i], SCALE, comp.makeup_gain)

\* C6 as stated (below-threshold property): on an instance whose latest
\* set_params returned, a process call whose input samples are all at most
\* the threshold in magnitude returns input * makeup_gain, whatever envelope
\* earlier process calls left.
C6_BelowThresholdAnyEnvelope ==
    (Processed /\ cfg.set /\ last.err = "none" /\ BelowThreshold) => UnityGain

\* C6 as amended: the same, for a call that starts from an envelope at most
\* the threshold on an instance configured with attack and release times
\* and a sample rate above 0.
C6_BelowThreshold ==
    (Processed /\ ValidTimes /\ last.env0 <= comp.threshold /\ BelowThreshold)
    => UnityGain

C6_Witness ==
    /\ last.op = "process" /\ ValidTimes /\ BelowThreshold
    /\ last.env0 > 0 /\ last.env0 <= comp.threshold
    /\ Len(last.input) = MaxLen
    /\ last.input[1] # 0
    /\ comp.makeup_gain # SCALE
    /\ cfg.params.ratio > 1

\* C7 (pass-through): after a set_params call with ratio 1 and makeup gain
\* 0 dB that returned, process raises nothing and returns its input
\* unchanged, whatever the threshold, attack and release.
C7_PassThrough ==
    (/\ Processed /\ cfg.set
     /\ cfg.params.ratio = 1 /\ cfg.params.makeup_gain_db = 0)
    => (last.err = "none" /\ last.output = last.input)

C7_Witness ==
    /\ last.op = "process" /\ cfg.set
    /\ cfg.params.ratio = 1 /\ cfg.params.makeup_gain_db = 0
    /\ Len(last.input) > 0
    /\ comp.envelope > comp.threshold

\* C8 (non-negative envelope): the envelope is at least 0 in every state.
C8_EnvelopeNonNegative == comp.envelope >= 0

\* C9 (concrete scenario): the output of the 100 samples of 1.0, and of
\* every prefix of them, processed right after the configuration, is
\* non-decreasing in magnitude.
C9_ScenarioNonDecreasing ==
    (last.op = "process")
    => /\ last.err = "none"
       /\ Len(last.output) = Len(last.input)
       /\ \A i \in 1..(Len(last.output) - 1) :
             Abs(last.output[i + 1]) >= Abs(last.output[i])

C9_Witness ==
    /\ last.op = "process"
    /\ last.env0 = 0
    /\ last.input = Ones(ScenarioLen)
    /\ comp.envelope > 0

\* The envelope before sample i of the last call.
EnvBefore(i) == IF i = 1 THEN last.env0 ELSE last.trace[i - 1].envelope

\* The step of sample i of the last call stays between the old envelope and
\* |x|: the attack branch exactly when |x| > envelope, and then the new
\* envelope is above the old one (strictly, when strict) and at most |x|;
\* otherwise it is between |x| and the old one.
StepBounded(i, strict) ==
    LET old == EnvBefore(i)
        new == last.trace[i].envelope
        rectified == Abs(last.input[i])
    IN  /\ (last.trace[i].branch = "attack") <=> (rectified > old)
        /\ (rectified > old)
           => ((IF strict THEN old < new ELSE old <= new) /\ new <= rectified)
        /\ (rectified <= old) => (rectified <= new /\ new <= old)

\* A call never leaves the envelope above its starting value and the peak
\* of its input.
PeakBounded ==
    comp.envelope <= Max(last.env0, Peak(last.input, Len(last.trace)))

\* C10 as stated (no overshoot): on an instance configured with attack and
\* release times above 0, every sample takes the attack branch exactly
\* when |x| > envelope, and then old < new <= |x|; otherwise
\* |x| <= new <= old; hence the envelope after the call is at most the
\* maximum of its value before and the largest |x|.
C10_StepStrict ==
    (Processed /\ ValidTimes)
    => /\ \A i \in 1..Len(last.trace) : StepBounded(i, TRUE)
       /\ PeakBounded

\* C10 as amended: the same with old <= new <= |x| in the attack branch.
C10_Step ==
    (Processed /\ ValidTimes)
    => /\ \A i \in 1..Len(last.trace) : StepBounded(i, FALSE)
       /\ PeakBounded

C10_Witness ==
    /\ last.op = "process" /\ ValidTimes
    /\ Len(last.trace) = MaxLen
    /\ last.trace[1].branch = "attack"
    /\ last.trace[2].branch = "release"
    /\ last.trace[1].envelope > last.env0
    /\ last.trace[2].envelope < last.trace[1].envelope
    /\ last.trace[2].envelope > Abs(last.input[2])

=============================================================================
